---- MODULE Spec2Model ----
(***************************************************************************)
(* eilos: the RuntimeContext (struct/RuntimeContext.ts) and the CLI        *)
(* command handler (entry-cli.ts) as a state machine.                      *)
(*                                                                         *)
(* JavaScript values are tagged records [t, v]; objects are functions from *)
(* a finite set of keys to values; arrays are sequences; absolute paths    *)
(* are sequences of segments, so that path.join's normalisation is         *)
(* computed and not assumed. The keys of an object are its own keys under  *)
(* ordinary names; names inherited from Object.prototype are not modelled. *)
(* Each operation leaves in ret what it was called with and what it        *)
(* returned or threw; the h-variables are history, written next to the     *)
(* operation from its arguments alone.                                     *)
(***************************************************************************)
EXTENDS Integers, Sequences, FiniteSets, TLC

VARIABLES
    env,            \* this._env
    dir,            \* this._dir: alias -> path, a missing key is undefined
    config,         \* this._config
    config_files,   \* this._config_files: name -> ConfigFile | null
    args,           \* this._args
    usedFiles,      \* this._usedFiles: a Set, kept in insertion order
    ret,            \* the last call: operation, arguments, outcome
    calls,          \* the calls the last operation made to its collaborators
    hPassed,        \* history: names passed so far to the three accessors
    hRegistered,    \* history: name -> definition of the latest setConfigFile
    hDir,           \* history: alias -> path given at construction or last set
    hArgs,          \* history: key -> value of the latest partial holding it
    hOptionKeys,    \* history: top-level keys of the partials merged so far
    argv,           \* cli(argv): the command line
    action,         \* the action of the command: which optional hooks it defines
    loggerLevel,    \* logger.level
    stage,          \* where the invocation stands
    invoked,        \* the hooks invoked so far, in order
    rejected,       \* the hook whose promise rejected, or "none"
    log,            \* the messages logged by the command handler and by cli
    exitCode        \* the status given to process.exit, or -1 while running

vars == <<env, dir, config, config_files, args, usedFiles, ret, calls,
          hPassed, hRegistered, hDir, hArgs, hOptionKeys,
          argv, action, loggerLevel, stage, invoked, rejected, log, exitCode>>

cliVars == <<argv, action, loggerLevel, stage, invoked, rejected, log, exitCode>>

Range(s) == {s[i] : i \in DOMAIN s}

Last(s) == s[Len(s)]

-----------------------------------------------------------------------------
(* JavaScript values *)

Undefined == [t |-> "undefined", v |-> 0]
Null == [t |-> "null", v |-> 0]
Num(n) == [t |-> "number", v |-> n]
Str(s) == [t |-> "string", v |-> s]
Bool(b) == [t |-> "boolean", v |-> b]
Arr(s) == [t |-> "array", v |-> s]
Obj(f) == [t |-> "object", v |-> f]
EmptyObj == Obj(<<>>)

IsArray(x) == x.t = "array"
IsPlainObject(x) == x.t = "object"
IsNullish(x) == x.t \in {"undefined", "null"}

Truthy(x) ==
    CASE x.t \in {"undefined", "null"} -> FALSE
      [] x.t = "number" -> x.v # 0
      [] x.t = "string" -> x.v # ""
      [] x.t = "boolean" -> x.v
      [] OTHER -> TRUE

Keys(x) == IF IsPlainObject(x) THEN DOMAIN x.v ELSE {}

Prop(x, k) == IF k \in Keys(x) THEN x.v[k] ELSE Undefined

-----------------------------------------------------------------------------
(* deepmerge, as updateOptions calls it: arrayMerge is overwriteMerge *)

\* arrays replaced by the source, as the name suggests
overwriteMerge_Replace(destinationArray, sourceArray) == sourceArray

\* ([]).concat(destinationArray, sourceArray)
overwriteMerge(destinationArray, sourceArray) == destinationArray \o sourceArray

\* deepmerge's isMergeableObject: a non-null object, array or plain
IsMergeableObject(x) == IsArray(x) \/ IsPlainObject(x)

RECURSIVE DeepMerge(_, _)
RECURSIVE MergeObject(_, _)

\* mergeObject: the target's keys are kept, each key of the source is merged
\* into a key the target holds when the source's value is mergeable, and
\* otherwise taken from the source
MergeObject(target, source) ==
    Obj([k \in Keys(target) \cup Keys(source) |->
            IF k \notin Keys(source) THEN target.v[k]
            ELSE IF k \in Keys(target) /\ IsMergeableObject(source.v[k])
                 THEN DeepMerge(target.v[k], source.v[k])
                 ELSE source.v[k]])

\* deepmerge(target, source, {arrayMerge: overwriteMerge})
DeepMerge(target, source) ==
    IF IsArray(source) # IsArray(target) THEN source
    ELSE IF IsArray(source) THEN Arr(overwriteMerge(target.v, source.v))
    ELSE MergeObject(target, source)

\* Object.assign({}, a, b): own keys of objects, none of a primitive
ObjectAssign(a, b) ==
    Obj([k \in Keys(a) \cup Keys(b) |-> IF k \in Keys(b) THEN b.v[k] ELSE a.v[k]])

-----------------------------------------------------------------------------
(* Outcomes of a call *)

Return(op, arg, val) == [op |-> op, arg |-> arg, ok |-> TRUE, val |-> val]

DirectoryNotDefined == "Directory was not defined"
FileNotDefined == "Configuration file was not defined"

-----------------------------------------------------------------------------
(* Directories and paths *)

Aliases == {"project", "dist.config", "missing"}

Paths == {<<"tmp">>, <<"work", "..", "dist">>}

InitDirs ==
    {[a \in {"project"} |-> <<"work">>],
     [a \in {"project", "dist.config"} |-> <<"work", "..", "dist">>]}

RECURSIVE NormalizeOnto(_, _)
NormalizeOnto(done, rest) ==
    IF rest = <<>> THEN done
    ELSE LET s == Head(rest) IN
         IF s \in {"", "."} THEN NormalizeOnto(done, Tail(rest))
         ELSE IF s = ".."
              THEN NormalizeOnto(IF done = <<>> THEN done
                                 ELSE SubSeq(done, 1, Len(done) - 1), Tail(rest))
              ELSE NormalizeOnto(Append(done, s), Tail(rest))

PathJoin(base, name) == NormalizeOnto(<<>>, base \o <<name>>)

\* a table that keeps the first path given for an alias
DirStore_KeepFirst(d, alias, path) ==
    [a \in DOMAIN d \cup {alias} |-> IF a \in DOMAIN d THEN d[a] ELSE path]

DirStore(d, alias, path) ==
    [a \in DOMAIN d \cup {alias} |-> IF a = alias THEN path ELSE d[a]]

DirDefined(d, alias) == alias \in DOMAIN d

-----------------------------------------------------------------------------
(* Config-file registry *)

Names == {"a", "b"}

StaticFile == [kind |-> "contents", id |-> 1]
GeneratorFile == [kind |-> "generator", id |-> 2]
NullFile == [kind |-> "null", id |-> 0]

ConfigFiles == {StaticFile, GeneratorFile}

\* an add that moves a held value to the end
SetAdd_MoveToEnd(s, x) == Append(SelectSeq(s, LAMBDA y : y # x), x)

\* Set.prototype.add: a Set iterates in insertion order, a held value stays put
SetAdd(s, x) == IF x \in Range(s) THEN s ELSE Append(s, x)

\* this._config_files[name] == null: undefined (no key) or null
FileIsNullish(files, name) == name \notin DOMAIN files \/ files[name] = NullFile

\* a table rebuilt around the one name stored
FileStore_Reset(files, name, d) == [n \in {name} |-> d]

FileStore(files, name, d) ==
    [n \in DOMAIN files \cup {name} |-> IF n = name THEN d ELSE files[n]]

\* the placeholder stored without looking at what is held
MarkRequested_Always(files, name) == FileStore(files, name, NullFile)

MarkRequested(files, name) ==
    IF FileIsNullish(files, name) THEN FileStore(files, name, NullFile) ELSE files

DirectoryOutcome(d, alias) ==
    IF ~DirDefined(d, alias)
    THEN [ok |-> FALSE, val |-> DirectoryNotDefined]
    ELSE [ok |-> TRUE, val |-> d[alias]]

\* the path taken under the project directory
FilePathOutcome_Project(d, name) ==
    LET base == DirectoryOutcome(d, "project") IN
    IF base.ok THEN [ok |-> TRUE, val |-> PathJoin(base.val, name)] ELSE base

FilePathOutcome(d, name) ==
    LET base == DirectoryOutcome(d, "dist.config") IN
    IF base.ok THEN [ok |-> TRUE, val |-> PathJoin(base.val, name)] ELSE base

\* a check for undefined alone, which lets the null placeholder through
FileDefinitionOutcome_UndefinedOnly(files, name) ==
    IF name \notin DOMAIN files
    THEN [ok |-> FALSE, val |-> FileNotDefined]
    ELSE [ok |-> TRUE, val |-> files[name]]

FileDefinitionOutcome(files, name) ==
    IF FileIsNullish(files, name)
    THEN [ok |-> FALSE, val |-> FileNotDefined]
    ELSE [ok |-> TRUE, val |-> files[name]]

\* the path resolved before the definition
FileContentsOutcome_PathFirst(d, files, name) ==
    LET fileDef == FileDefinitionOutcome(files, name)
        fileName == FilePathOutcome(d, name)
    IN IF ~fileName.ok THEN fileName
       ELSE IF ~fileDef.ok THEN fileDef
       ELSE [ok |-> TRUE, val |-> [fileDef |-> fileDef.val, fileName |-> fileName.val]]

\* the definition is resolved first; the path only when that did not throw
FileContentsOutcome(d, files, name) ==
    LET fileDef == FileDefinitionOutcome(files, name)
        fileName == FilePathOutcome(d, name)
    IN IF ~fileDef.ok THEN fileDef
       ELSE IF ~fileName.ok THEN fileName
       ELSE [ok |-> TRUE, val |-> [fileDef |-> fileDef.val, fileName |-> fileName.val]]

Outcome(op, arg, o) == [op |-> op, arg |-> arg, ok |-> o.ok, val |-> o.val]

\* return getFileContents(this, fileDef, fileName): reached when neither
\* the definition nor the path threw
FileContentsCalls(o) ==
    IF o.ok THEN <<[fn |-> "getFileContents", fileDef |-> o.val.fileDef,
                    fileName |-> o.val.fileName]>>
    ELSE <<>>

-----------------------------------------------------------------------------
(* Options and arguments *)

\* a configuration replaced key by key, without recursion
UpdatedConfig_ShallowAssign(held, obj) == ObjectAssign(held, obj)

\* merge(this._config, obj, { arrayMerge: overwriteMerge })
UpdatedConfig(held, obj) == DeepMerge(held, obj)

\* a nullish check in place of the truthiness check
OptionValue_Nullish(held, name, defaults) ==
    LET value == Prop(held, name) IN
    IF IsPlainObject(value) THEN ObjectAssign(defaults, value)
    ELSE IF IsNullish(value) THEN defaults ELSE value

\* getOption: typeof value === "object" && value && !Array.isArray(value)
OptionValue(held, name, defaults) ==
    LET value == Prop(held, name) IN
    IF IsPlainObject(value) THEN ObjectAssign(defaults, value)
    ELSE IF Truthy(value) THEN value ELSE defaults

\* Object.assign(this._args, args)
UpdatedArgs(held, partial) == ObjectAssign(held, partial)

\* a truthiness check in place of the == null check
ArgValue_Falsy(held, name, defaultValue) ==
    IF Truthy(Prop(held, name)) THEN Prop(held, name) ELSE defaultValue

\* getArg: this._args[name] == null ? defaultValue : this._args[name]
ArgValue(held, name, defaultValue) ==
    IF IsNullish(Prop(held, name)) THEN defaultValue ELSE Prop(held, name)

MaxArrayLen == 3

RECURSIVE ArraysWithin(_, _)
ArraysWithin(x, n) ==
    IF IsArray(x) THEN Len(x.v) <= n /\ \A i \in DOMAIN x.v : ArraysWithin(x.v[i], n)
    ELSE IF IsPlainObject(x) THEN \A k \in Keys(x) : ArraysWithin(x.v[k], n)
    ELSE TRUE

OptionNames == {"x", "plugins", "debug"}

OptionPartials ==
    {Obj([plugins |-> Arr(<<Num(1), Num(2)>>)]),
     Obj([plugins |-> Arr(<<Num(3)>>)]),
     Obj([plugins |-> Arr(<<Obj([n |-> Num(1)])>>)]),
     Obj([x |-> Obj([b |-> Num(2)])]),
     Obj([x |-> Obj([a |-> Num(5), list |-> Arr(<<Num(1)>>)])]),
     Obj([x |-> Obj([list |-> Arr(<<Num(1)>>)])]),
     Obj([x |-> Num(0)]),
     Obj([x |-> Str("")]),
     Obj([x |-> Bool(FALSE)]),
     Obj([x |-> Null]),
     Obj([x |-> Arr(<<>>)]),
     Obj([debug |-> Bool(TRUE), x |-> Str("s")])}

OptionDefaults ==
    {Undefined, Num(7), Obj([a |-> Num(1)]),
     Obj([a |-> Num(9), list |-> Arr(<<Num(9)>>)])}

ArgNames == {"verbose", "count", "out", "opts"}

ArgPartials ==
    {Obj([verbose |-> Bool(TRUE)]),
     Obj([verbose |-> Bool(FALSE), count |-> Num(0)]),
     Obj([count |-> Num(3)]),
     Obj([count |-> Null]),
     Obj([out |-> Str("")]),
     Obj([out |-> Str("dist")]),
     Obj([out |-> Undefined]),
     Obj([opts |-> Obj([a |-> Num(1)])]),
     Obj([opts |-> Obj([b |-> Num(2)])])}

ArgDefaults == {Undefined, Num(1), Str("def")}

-----------------------------------------------------------------------------
(* RuntimeContext operations *)

Envs == {<<>>, [NODE_ENV |-> "production"]}

Constructor(e, d) ==
    /\ env = e
    /\ dir = d
    /\ config = EmptyObj
    /\ config_files = <<>>
    /\ args = EmptyObj
    /\ usedFiles = <<>>
    /\ ret = Return("constructor", <<>>, "this")
    /\ calls = <<>>
    /\ hPassed = {}
    /\ hRegistered = <<>>
    /\ hDir = d
    /\ hArgs = <<>>
    /\ hOptionKeys = {}

setDirectory(alias, path) ==
    /\ dir' = DirStore(dir, alias, path)
    /\ ret' = Return("setDirectory", <<alias, path>>, "this")
    /\ hDir' = [a \in DOMAIN hDir \cup {alias} |-> IF a = alias THEN path ELSE hDir[a]]
    /\ UNCHANGED <<env, config, config_files, args, usedFiles, hPassed, hRegistered, hArgs, hOptionKeys>>
    /\ calls' = <<>>
    /\ UNCHANGED cliVars

getDirectory(alias) ==
    /\ ret' = Outcome("getDirectory", alias, DirectoryOutcome(dir, alias))
    /\ UNCHANGED <<env, dir, config, config_files, args, usedFiles,
                   hPassed, hRegistered, hDir, hArgs, hOptionKeys>>
    /\ calls' = <<>>
    /\ UNCHANGED cliVars

getConfigFilePath(name) ==
    /\ usedFiles' = SetAdd(usedFiles, name)
    /\ config_files' = MarkRequested(config_files, name)
    /\ ret' = Outcome("getConfigFilePath", name, FilePathOutcome(dir, name))
    /\ hPassed' = hPassed \cup {name}
    /\ UNCHANGED <<env, dir, config, args, hRegistered, hDir, hArgs, hOptionKeys>>
    /\ calls' = <<>>
    /\ UNCHANGED cliVars

\* the name recorded after the check, so a failing call records nothing
getConfigFileDefinition_RecordLate(name) ==
    LET o == FileDefinitionOutcome(config_files, name) IN
    /\ usedFiles' = IF o.ok THEN SetAdd(usedFiles, name) ELSE usedFiles
    /\ ret' = Outcome("getConfigFileDefinition", name, o)
    /\ hPassed' = hPassed \cup {name}
    /\ UNCHANGED <<env, dir, config, config_files, args, hRegistered, hDir, hArgs, hOptionKeys>>
    /\ calls' = <<>>
    /\ UNCHANGED cliVars

getConfigFileDefinition(name) ==
    /\ usedFiles' = SetAdd(usedFiles, name)
    /\ ret' = Outcome("getConfigFileDefinition", name,
                      FileDefinitionOutcome(config_files, name))
    /\ hPassed' = hPassed \cup {name}
    /\ UNCHANGED <<env, dir, config, config_files, args, hRegistered, hDir, hArgs, hOptionKeys>>
    /\ calls' = <<>>
    /\ UNCHANGED cliVars

\* getConfigFileDefinition and getConfigFilePath are called in turn; the second
\* is reached, and marks the file requested, only when the first returned
getConfigFileContents(name) ==
    LET used1 == SetAdd(usedFiles, name)
        used2 == SetAdd(used1, name)
        fileDef == FileDefinitionOutcome(config_files, name)
    IN /\ usedFiles' = IF fileDef.ok THEN SetAdd(used2, name) ELSE used2
       /\ config_files' = IF fileDef.ok THEN MarkRequested(config_files, name)
                          ELSE config_files
       /\ ret' = Outcome("getConfigFileContents", name,
                         FileContentsOutcome(dir, config_files, name))
       /\ calls' = FileContentsCalls(FileContentsOutcome(dir, config_files, name))
       /\ hPassed' = hPassed \cup {name}
       /\ UNCHANGED <<env, dir, config, args, hRegistered, hDir, hArgs, hOptionKeys>>
       /\ UNCHANGED cliVars

getUsedConfigFiles ==
    /\ ret' = Return("getUsedConfigFiles", <<>>, usedFiles)
    /\ UNCHANGED <<env, dir, config, config_files, args, usedFiles,
                   hPassed, hRegistered, hDir, hArgs, hOptionKeys>>
    /\ calls' = <<>>
    /\ UNCHANGED cliVars

setConfigFile(name, contents) ==
    /\ config_files' = FileStore(config_files, name, contents)
    /\ ret' = Return("setConfigFile", <<name, contents>>, "void")
    /\ hRegistered' = [n \in DOMAIN hRegistered \cup {name} |->
                         IF n = name THEN contents ELSE hRegistered[n]]
    /\ UNCHANGED <<env, dir, config, args, usedFiles, hPassed, hDir, hArgs, hOptionKeys>>
    /\ calls' = <<>>
    /\ UNCHANGED cliVars

updateOptions(obj) ==
    /\ ArraysWithin(UpdatedConfig(config, obj), MaxArrayLen)
    /\ config' = UpdatedConfig(config, obj)
    /\ ret' = Return("updateOptions", obj, "void")
    /\ hOptionKeys' = hOptionKeys \cup Keys(obj)
    /\ UNCHANGED <<env, dir, config_files, args, usedFiles,
                   hPassed, hRegistered, hDir, hArgs>>
    /\ calls' = <<>>
    /\ UNCHANGED cliVars

getOption(name, defaults) ==
    /\ ret' = Return("getOption", <<name, defaults>>, OptionValue(config, name, defaults))
    /\ UNCHANGED <<env, dir, config, config_files, args, usedFiles,
                   hPassed, hRegistered, hDir, hArgs, hOptionKeys>>
    /\ calls' = <<>>
    /\ UNCHANGED cliVars

updateArgs(partial) ==
    /\ args' = UpdatedArgs(args, partial)
    /\ ret' = Return("updateArgs", partial, "void")
    /\ hArgs' = [k \in DOMAIN hArgs \cup Keys(partial) |->
                    IF k \in Keys(partial) THEN partial.v[k] ELSE hArgs[k]]
    /\ UNCHANGED <<env, dir, config, config_files, usedFiles,
                   hPassed, hRegistered, hDir, hOptionKeys>>
    /\ calls' = <<>>
    /\ UNCHANGED cliVars

getArg(name, defaultValue) ==
    /\ ret' = Return("getArg", <<name, defaultValue>>, ArgValue(args, name, defaultValue))
    /\ UNCHANGED <<env, dir, config, config_files, args, usedFiles,
                   hPassed, hRegistered, hDir, hArgs, hOptionKeys>>
    /\ calls' = <<>>
    /\ UNCHANGED cliVars

-----------------------------------------------------------------------------
(* Build mode and exec *)

\* a nullish check in place of ||, which lets the empty string through
Mode_Nullish(e) ==
    IF "NODE_ENV" \in DOMAIN e THEN e["NODE_ENV"] ELSE "development"

\* this._env.NODE_ENV || "development"
Mode(e) ==
    IF "NODE_ENV" \in DOMAIN e /\ e["NODE_ENV"] # "" THEN e["NODE_ENV"]
    ELSE "development"

getMode ==
    /\ ret' = Return("getMode", <<>>, Mode(env))
    /\ UNCHANGED <<env, dir, config, config_files, args, usedFiles,
                   hPassed, hRegistered, hDir, hArgs, hOptionKeys>>
    /\ calls' = <<>>
    /\ UNCHANGED cliVars

isDevelop ==
    /\ ret' = Return("isDevelop", <<>>, Mode(env) = "development")
    /\ UNCHANGED <<env, dir, config, config_files, args, usedFiles,
                   hPassed, hRegistered, hDir, hArgs, hOptionKeys>>
    /\ calls' = <<>>
    /\ UNCHANGED cliVars

isProduction ==
    /\ ret' = Return("isProduction", <<>>, Mode(env) = "production")
    /\ UNCHANGED <<env, dir, config, config_files, args, usedFiles,
                   hPassed, hRegistered, hDir, hArgs, hOptionKeys>>
    /\ calls' = <<>>
    /\ UNCHANGED cliVars

\* a path and the environment as values of an options object
PathValue(p) == [t |-> "path", v |-> p]
EnvValue(e) == Obj([k \in DOMAIN e |-> Str(e[k])])

\* the options exec builds before the caller's are merged in
ExecDefaults(d, e) ==
    Obj([localDir |-> PathValue(d["project"]),
         preferLocal |-> Bool(TRUE),
         stdio |-> Str("inherit"),
         env |-> EnvValue(e)])

\* the caller's options laid over the defaults key by key, without recursion
ExecOptions_Assign(d, e, options) ==
    ObjectAssign(ExecDefaults(d, e), IF options = Undefined THEN EmptyObj ELSE options)

\* merge(defaults, options || {}): deepmerge, whose own arrayMerge
\* concatenates as overwriteMerge does
ExecOptions(d, e, options) ==
    DeepMerge(ExecDefaults(d, e), IF options = Undefined THEN EmptyObj ELSE options)

\* `Invoking ${binary} ${(args || []).join(" ")}`, word by word
InvokingMessage(binary, execArgs) ==
    <<"Invoking", binary>>
        \o (IF execArgs = Undefined THEN <<>>
            ELSE [i \in DOMAIN execArgs.v |-> execArgs.v[i].v])

\* logger.debug comes first; getDirectory("project") is evaluated while the
\* options are built, so execa is reached only when it returned
exec(binary, execArgs, options) ==
    LET project == DirectoryOutcome(dir, "project")
        logged == [fn |-> "logger.debug", msg |-> InvokingMessage(binary, execArgs)]
    IN /\ calls' = IF project.ok
                   THEN <<logged, [fn |-> "execa", binary |-> binary, args |-> execArgs,
                                   options |-> ExecOptions(dir, env, options)]>>
                   ELSE <<logged>>
       /\ ret' = IF project.ok
                 THEN Return("exec", <<binary, execArgs, options>>, "ExecaChildProcess")
                 ELSE Outcome("exec", <<binary, execArgs, options>>, project)
       /\ UNCHANGED <<env, dir, config, config_files, args, usedFiles,
                      hPassed, hRegistered, hDir, hArgs, hOptionKeys>>
       /\ UNCHANGED cliVars

Binaries == {"webpack"}

ExecArgs == {Undefined, Arr(<<Str("--mode"), Str("production")>>)}

ExecOptionsGiven ==
    {Undefined,
     Obj([localDir |-> PathValue(<<"elsewhere">>)]),
     Obj([preferLocal |-> Bool(FALSE)]),
     Obj([stdio |-> Str("pipe")]),
     Obj([stdio |-> Arr(<<Str("pipe"), Str("inherit")>>)]),
     Obj([env |-> Obj([FOO |-> Str("1")])]),
     Obj([env |-> Obj([NODE_ENV |-> Str("test")]), cwd |-> PathValue(<<"tmp">>)])}

ModeEnvs ==
    {<<>>, [NODE_ENV |-> ""], [NODE_ENV |-> "production"], [NODE_ENV |-> "test"]}

-----------------------------------------------------------------------------
(* cli(argv) and the command handler *)

CommandLines ==
    {<<"build">>, <<"-D", "build">>, <<"--debug", "test", "extra">>,
     <<"-DD", "build">>, <<"-D", "-DD", "test", "a", "b">>}

Actions == [preRun : BOOLEAN, postRun : BOOLEAN]

DebugFlags == {"-D", "--debug", "-DD"}

\* argv.includes(token)
Includes(line, token) == token \in Range(line)

\* the bag of the argument parser: the positional tokens under "_", the command
\* first, and the global flag under its name and its alias
ParsedArgv(line) ==
    LET flag == Bool(\E f \in DebugFlags : Includes(line, f)) IN
    Obj([k \in {"_", "D", "debug"} |->
           IF k = "_"
           THEN Arr([i \in 1..Len(SelectSeq(line, LAMBDA t : t \notin DebugFlags)) |->
                       Str(SelectSeq(line, LAMBDA t : t \notin DebugFlags)[i])])
           ELSE flag])

ActionName(line) == ParsedArgv(line).v["_"].v[1].v

\* argv._.slice(1).map(String)
ArgvOption(parsed) == Obj([argv |-> Arr(Tail(parsed.v["_"].v))])

StepCompleted(actionName) == [level |-> "info", action |-> actionName, msg |-> "step completed"]
StepFailed(actionName) == [level |-> "error", action |-> actionName, msg |-> "step failed"]
CriticalError == [level |-> "error", action |-> "", msg |-> "Critical error"]

CommandLine(line, act) ==
    /\ argv = line
    /\ action = act
    /\ loggerLevel = "default"
    /\ stage = "Startup"
    /\ invoked = <<>>
    /\ rejected = "none"
    /\ log = <<>>
    /\ exitCode = -1

\* the context used on its own, with no command line behind it
NoCommandLine == CommandLine(<<>>, [preRun |-> FALSE, postRun |-> FALSE])

ctxOnly == <<env, dir, config_files, usedFiles, calls, hPassed, hRegistered, hDir>>

\* cli: the debug flags are read off argv before it is parsed, the project
\* configuration is loaded, and -D or --debug sets the debug option
cliStartup ==
    LET useDebug == Includes(argv, "-D") \/ Includes(argv, "--debug")
        useVerboseDebug == Includes(argv, "-DD")
        debugOption == Obj([debug |-> Bool(TRUE)])
    IN /\ stage = "Startup"
       /\ argv # <<>>
       /\ loggerLevel' = IF useVerboseDebug THEN "silly"
                         ELSE IF useDebug THEN "debug" ELSE loggerLevel
       /\ config' = IF useDebug THEN UpdatedConfig(config, debugOption) ELSE config
       /\ hOptionKeys' = IF useDebug THEN hOptionKeys \cup Keys(debugOption)
                         ELSE hOptionKeys
       /\ ret' = IF useDebug THEN Return("updateOptions", debugOption, "void") ELSE ret
       /\ stage' = "Parsing"
       /\ UNCHANGED <<args, hArgs, argv, action, invoked, rejected, log, exitCode>>
       /\ UNCHANGED ctxOnly

\* the catch of cli's async body: the error is logged, the process goes on
criticalError ==
    /\ stage = "Startup"
    /\ argv # <<>>
    /\ log' = Append(log, CriticalError)
    /\ stage' = "Crashed"
    /\ UNCHANGED <<config, args, ret, hArgs, hOptionKeys,
                   argv, action, loggerLevel, invoked, rejected, exitCode>>
    /\ UNCHANGED ctxOnly

\* the command handler up to the call of invokeAction
commandHandler ==
    LET parsed == ParsedArgv(argv) IN
    /\ stage = "Parsing"
    /\ config' = UpdatedConfig(config, ArgvOption(parsed))
    /\ hOptionKeys' = hOptionKeys \cup Keys(ArgvOption(parsed))
    /\ args' = UpdatedArgs(args, parsed)
    /\ hArgs' = [k \in DOMAIN hArgs \cup Keys(parsed) |->
                    IF k \in Keys(parsed) THEN parsed.v[k] ELSE hArgs[k]]
    /\ ret' = Return("updateArgs", parsed, "void")
    /\ stage' = "Idle"
    /\ UNCHANGED <<argv, action, loggerLevel, invoked, rejected, log, exitCode>>
    /\ UNCHANGED ctxOnly

\* invokeAction: preRun, when the action defines it, else run
beginAction ==
    /\ stage = "Idle"
    /\ stage' = IF action.preRun THEN "PreRun" ELSE "Run"
    /\ invoked' = Append(invoked, IF action.preRun THEN "preRun" ELSE "run")
    /\ UNCHANGED <<config, args, ret, hArgs, hOptionKeys,
                   argv, action, loggerLevel, rejected, log, exitCode>>
    /\ UNCHANGED ctxOnly

\* the hook under way resolves: the next defined hook is invoked, or the
\* invocation is done
hookResolves ==
    /\ stage \in {"PreRun", "Run", "PostRun"}
    /\ stage' = IF stage = "PreRun" THEN "Run"
                ELSE IF stage = "Run" /\ action.postRun THEN "PostRun"
                ELSE "Done"
    /\ invoked' = IF stage = "PreRun" THEN Append(invoked, "run")
                  ELSE IF stage = "Run" /\ action.postRun THEN Append(invoked, "postRun")
                  ELSE invoked
    /\ UNCHANGED <<config, args, ret, hArgs, hOptionKeys,
                   argv, action, loggerLevel, rejected, log, exitCode>>
    /\ UNCHANGED ctxOnly

\* the hook under way rejects: no further hook is invoked
hookRejects ==
    /\ stage \in {"PreRun", "Run", "PostRun"}
    /\ stage' = "Failed"
    /\ rejected' = Last(invoked)
    /\ UNCHANGED <<config, args, ret, hArgs, hOptionKeys,
                   argv, action, loggerLevel, invoked, log, exitCode>>
    /\ UNCHANGED ctxOnly

\* .then((_) => logger.info(...))
thenHandler ==
    /\ stage = "Done"
    /\ log' = Append(log, StepCompleted(ActionName(argv)))
    /\ stage' = "Completed"
    /\ UNCHANGED <<config, args, ret, hArgs, hOptionKeys,
                   argv, action, loggerLevel, invoked, rejected, exitCode>>
    /\ UNCHANGED ctxOnly

\* a handler that logs the failure and lets the process end as usual
catchHandler_NoExit ==
    /\ stage = "Failed"
    /\ log' = Append(log, StepFailed(ActionName(argv)))
    /\ stage' = "Exited"
    /\ UNCHANGED <<config, args, ret, hArgs, hOptionKeys,
                   argv, action, loggerLevel, invoked, rejected, exitCode>>
    /\ UNCHANGED ctxOnly

\* .catch((err) => { logger.error(...); process.exit(1); })
catchHandler ==
    /\ stage = "Failed"
    /\ log' = Append(log, StepFailed(ActionName(argv)))
    /\ exitCode' = 1
    /\ stage' = "Exited"
    /\ UNCHANGED <<config, args, ret, hArgs, hOptionKeys,
                   argv, action, loggerLevel, invoked, rejected>>
    /\ UNCHANGED ctxOnly

(* One run of the command line, from cli(argv) to the end of the invocation *)

InitCli ==
    \E e \in Envs, d \in InitDirs, line \in CommandLines, act \in Actions :
        Constructor(e, d) /\ CommandLine(line, act)

NextCli ==
    \/ cliStartup
    \/ criticalError
    \/ commandHandler
    \/ beginAction
    \/ hookResolves
    \/ hookRejects
    \/ thenHandler
    \/ catchHandler

SpecCli == InitCli /\ [][NextCli]_vars

-----------------------------------------------------------------------------
(* The registry and the directory table under every order of calls *)

Init == \E e \in Envs, d \in InitDirs : Constructor(e, d) /\ NoCommandLine

Next ==
    \/ \E alias \in Aliases, path \in Paths : setDirectory(alias, path)
    \/ \E alias \in Aliases : getDirectory(alias)
    \/ \E name \in Names, contents \in ConfigFiles : setConfigFile(name, contents)
    \/ \E name \in Names : getConfigFilePath(name)
    \/ \E name \in Names : getConfigFileDefinition(name)
    \/ \E name \in Names : getConfigFileContents(name)
    \/ getUsedConfigFiles

Spec == Init /\ [][Next]_vars

-----------------------------------------------------------------------------
(* The configuration tree under every order of updateOptions and getOption *)

InitContext == Constructor(<<>>, [a \in {"project"} |-> <<"work">>]) /\ NoCommandLine

NextOptions ==
    \/ \E obj \in OptionPartials : updateOptions(obj)
    \/ \E name \in OptionNames, defaults \in OptionDefaults : getOption(name, defaults)

SpecOptions == InitContext /\ [][NextOptions]_vars

(* The argument store under every order of updateArgs and getArg *)

NextArgs ==
    \/ \E partial \in ArgPartials : updateArgs(partial)
    \/ \E name \in ArgNames, defaultValue \in ArgDefaults : getArg(name, defaultValue)

SpecArgs == InitContext /\ [][NextArgs]_vars

-----------------------------------------------------------------------------
(* Every operation of the context, in every order, on small inputs *)

FewAliases == {"dist.config", "missing"}
FewPaths == {<<"tmp">>}
FewFiles == {StaticFile}
FewOptions == {Obj([x |-> Obj([b |-> Num(2)])]), Obj([x |-> Num(0)])}
FewArgs == {Obj([count |-> Num(0)])}
FewExecOptions == {Undefined, Obj([env |-> Obj([FOO |-> Str("1")])])}

InitAny == \E e \in ModeEnvs, d \in InitDirs : Constructor(e, d) /\ NoCommandLine

NextContext ==
    \/ \E alias \in FewAliases, path \in FewPaths : setDirectory(alias, path)
    \/ \E alias \in FewAliases : getDirectory(alias)
    \/ \E name \in Names, contents \in FewFiles : setConfigFile(name, contents)
    \/ \E name \in Names : getConfigFilePath(name)
    \/ \E name \in Names : getConfigFileDefinition(name)
    \/ \E name \in Names : getConfigFileContents(name)
    \/ getUsedConfigFiles
    \/ \E obj \in FewOptions : updateOptions(obj)
    \/ \E name \in {"x"}, defaults \in {Undefined} : getOption(name, defaults)
    \/ \E partial \in FewArgs : updateArgs(partial)
    \/ \E name \in {"count"}, defaultValue \in {Num(1)} : getArg(name, defaultValue)
    \/ getMode
    \/ isDevelop
    \/ isProduction
    \/ \E binary \in Binaries, execArgs \in {Undefined}, options \in FewExecOptions :
          exec(binary, execArgs, options)

SpecContext == InitAny /\ [][NextContext]_vars

(* exec under every option a caller may give, with the project directory moved *)

NextExec ==
    \/ \E path \in Paths : setDirectory("project", path)
    \/ getMode
    \/ \E binary \in Binaries, execArgs \in ExecArgs, options \in ExecOptionsGiven :
          exec(binary, execArgs, options)

SpecExec == InitAny /\ [][NextExec]_vars

-----------------------------------------------------------------------------
(* Claims about the registry and the directory table *)

Accessors == {"getConfigFilePath", "getConfigFileDefinition", "getConfigFileContents"}

\* C1: getUsedConfigFiles() holds exactly the distinct names passed so far to
\* the three accessors, whether or not the call succeeded: no name is lost and
\* no other operation adds one.
C1_UsedFilesAreTheNamesPassed ==
    /\ Range(usedFiles) = hPassed
    /\ ret.op = "getUsedConfigFiles" => Range(ret.val) = hPassed

\* path("a") without a definition, then contents("b") with b registered
C1_Witness ==
    /\ ret.op = "getConfigFileContents" /\ ret.arg = "b" /\ ret.ok
    /\ usedFiles = <<"a", "b">>
    /\ "a" \in DOMAIN config_files /\ config_files["a"] = NullFile

\* C2 as stated: getConfigFilePath returns the joined path in every
\* reachable state of the context.
C2_PathInEveryState ==
    ret.op = "getConfigFilePath" =>
        /\ ret.ok
        /\ "dist.config" \in DOMAIN dir
        /\ ret.val = PathJoin(dir["dist.config"], ret.arg)

\* C2 (amended): getConfigFilePath never fails for want of a definition. With
\* the dist.config alias set it returns that directory joined with the name;
\* with the alias unset it fails with the directory error. Either way a name
\* without a registered definition holds the null placeholder afterwards.
C2_PathWheneverDistConfigSet ==
    ret.op = "getConfigFilePath" =>
        /\ ret.ok <=> "dist.config" \in DOMAIN dir
        /\ ret.ok => ret.val = PathJoin(dir["dist.config"], ret.arg)
        /\ ~ret.ok => ret.val = DirectoryNotDefined
        /\ ret.arg \in DOMAIN config_files
        /\ ret.arg \notin DOMAIN hRegistered => config_files[ret.arg] = NullFile

\* a path for a name never registered, normalised by the join
C2_Witness ==
    /\ ret.op = "getConfigFilePath" /\ ret.arg = "a" /\ ret.ok
    /\ ret.val = <<"dist", "a">>
    /\ "a" \notin DOMAIN hRegistered
    /\ config_files["a"] = NullFile

\* C3: getConfigFileDefinition fails with "not defined" exactly when no
\* setConfigFile has registered the name (a missing key or the placeholder),
\* and otherwise returns the definition of the latest setConfigFile.
C3_DefinitionIffRegistered ==
    ret.op = "getConfigFileDefinition" =>
        /\ ret.ok <=> ret.arg \in DOMAIN hRegistered
        /\ ret.ok => ret.val = hRegistered[ret.arg]
        /\ ~ret.ok => ret.val = FileNotDefined

\* a is returned as registered while b holds only its placeholder
C3_Witness ==
    /\ ret.op = "getConfigFileDefinition" /\ ret.arg = "a" /\ ret.ok
    /\ ret.val = GeneratorFile
    /\ "b" \in hPassed /\ "b" \in DOMAIN config_files /\ config_files["b"] = NullFile

\* C7: the table holds for each alias the path given at construction or by the
\* latest setDirectory, as given, and nothing for any other alias (the history
\* only grows, so a defined alias stays defined); getDirectory returns that
\* path and fails with the directory error for an alias never given.
C7_DirectorySetBeforeRead ==
    /\ dir = hDir
    /\ ret.op = "getDirectory" =>
        /\ ret.ok <=> ret.arg \in DOMAIN hDir
        /\ ret.ok => ret.val = hDir[ret.arg]
        /\ ~ret.ok => ret.val = DirectoryNotDefined

\* an alias unset at construction, set twice, read back as last given
C7_Witness ==
    /\ ret.op = "getDirectory" /\ ret.arg = "missing" /\ ret.ok
    /\ ret.val = <<"work", "..", "dist">>

\* C10: getUsedConfigFiles() holds each used name once, in the order of first
\* use; an accessor given a name already held changes nothing, one given a new
\* name appends it.
C10_FirstObservedOrder ==
    /\ [](/\ Cardinality(Range(usedFiles)) = Len(usedFiles)
          /\ ret.op = "getUsedConfigFiles" => ret.val = usedFiles)
    /\ [][ret'.op \in Accessors =>
            usedFiles' = IF ret'.arg \in Range(usedFiles) THEN usedFiles
                         ELSE Append(usedFiles, ret'.arg)]_vars

\* b first, a second, b passed again
C10_Witness ==
    /\ usedFiles = <<"b", "a">>
    /\ ret.op = "getConfigFilePath" /\ ret.arg = "b"

-----------------------------------------------------------------------------
(* Claims about options and arguments *)

\* held and partial both hold an array at a key, here or inside objects held
\* by both: the result holds the held elements followed by the partial's
RECURSIVE ArraysConcatenated(_, _, _)
ArraysConcatenated(held, partial, result) ==
    \A k \in Keys(held) \cap Keys(partial) :
        /\ IsArray(held.v[k]) /\ IsArray(partial.v[k]) =>
              Prop(result, k) = Arr(held.v[k].v \o partial.v[k].v)
        /\ IsPlainObject(held.v[k]) /\ IsPlainObject(partial.v[k]) =>
              ArraysConcatenated(held.v[k], partial.v[k], Prop(result, k))

\* C4: in every updateOptions, an array held at a key where the partial holds
\* an array too, at top level or inside merged objects, becomes the held
\* elements followed by the partial's: not replaced, not merged by element,
\* not de-duplicated.
C4_ArraysConcatenate ==
    [][ret'.op = "updateOptions" => ArraysConcatenated(config, ret'.arg, config')]_vars

\* the same array-valued partials applied twice, at top level and nested
C4_Witness ==
    /\ ret.op = "updateOptions"
    /\ Prop(config, "plugins") = Arr(<<Num(3), Obj([n |-> Num(1)]), Num(3)>>)
    /\ Prop(Prop(config, "x"), "list") = Arr(<<Num(1), Num(1)>>)

\* the keys of the result are those of both sides; a key of the partial alone
\* or with a scalar value holds the partial's value, a key of the held object
\* alone keeps its value, plain objects on both sides merge the same way
RECURSIVE MergedKeyByKey(_, _, _)
MergedKeyByKey(held, partial, result) ==
    /\ IsPlainObject(result)
    /\ Keys(result) = Keys(held) \cup Keys(partial)
    /\ \A k \in Keys(held) \ Keys(partial) : result.v[k] = held.v[k]
    /\ \A k \in Keys(partial) :
          /\ ~IsMergeableObject(partial.v[k]) => result.v[k] = partial.v[k]
          /\ IsPlainObject(partial.v[k]) /\ IsPlainObject(Prop(held, k)) =>
                MergedKeyByKey(held.v[k], partial.v[k], result.v[k])

\* C5: the keys of the configuration are the union of the keys of all partials
\* merged so far; in every updateOptions no key is dropped, plain objects at the
\* same key merge recursively key by key, and a scalar of the partial is the
\* value held afterwards.
C5_KeysUnionAndRecursiveMerge ==
    /\ [](Keys(config) = hOptionKeys)
    /\ [][ret'.op = "updateOptions" => MergedKeyByKey(config, ret'.arg, config')]_vars

\* x accumulated from two partials, next to keys of other partials
C5_Witness ==
    /\ ret.op = "updateOptions" /\ ret.arg = Obj([x |-> Obj([b |-> Num(2)])])
    /\ Prop(config, "x") = Obj([a |-> Num(5), b |-> Num(2), list |-> Arr(<<Num(1)>>)])
    /\ Keys(config) = {"x", "plugins", "debug"}

FalsyValues == {Undefined, Null, Num(0), Str(""), Bool(FALSE)}

\* C6: getOption returns, for a stored plain object, the keys of the defaults
\* overlaid by the stored keys, one level deep; otherwise the stored value when
\* truthy and the defaults when it is absent or 0, "", false, null. The stored
\* configuration is left as it is.
C6_GetOption ==
    /\ [](ret.op = "getOption" =>
            LET stored == Prop(config, ret.arg[1])
                defaults == ret.arg[2]
            IN IF IsPlainObject(stored)
               THEN /\ IsPlainObject(ret.val)
                    /\ Keys(ret.val) = Keys(defaults) \cup Keys(stored)
                    /\ \A k \in Keys(ret.val) :
                          ret.val.v[k] = IF k \in Keys(stored) THEN stored.v[k]
                                         ELSE defaults.v[k]
               ELSE ret.val = IF stored \in FalsyValues THEN defaults ELSE stored)
    /\ [][ret'.op = "getOption" => config' = config]_vars

\* getOption("x", {a:1}) with x = {b:2} stored
C6_Witness ==
    /\ ret.op = "getOption" /\ ret.arg = <<"x", Obj([a |-> Num(1)])>>
    /\ Prop(config, "x") = Obj([b |-> Num(2)])
    /\ ret.val = Obj([a |-> Num(1), b |-> Num(2)])

\* the falsy quirk: x = 0 stored, the default returned
C6_WitnessFalsy ==
    /\ ret.op = "getOption" /\ ret.arg = <<"x", Num(7)>>
    /\ Prop(config, "x") = Num(0)
    /\ ret.val = Num(7)

\* C8: getArg returns the value of the key in the latest updateArgs partial
\* that held it, whole and unmerged, and the default only when that value is
\* null or undefined or no partial held the key: 0, false and "" are returned.
C8_GetArg ==
    ret.op = "getArg" =>
        LET name == ret.arg[1]
            defaultValue == ret.arg[2]
            latest == IF name \in DOMAIN hArgs THEN hArgs[name] ELSE Undefined
        IN ret.val = IF latest \in {Null, Undefined} THEN defaultValue ELSE latest

\* count = 0 stored by the latest partial, returned in place of the default
C8_Witness ==
    /\ ret.op = "getArg" /\ ret.arg = <<"count", Num(1)>>
    /\ ret.val = Num(0)
    /\ Prop(args, "opts") = Obj([b |-> Num(2)])

-----------------------------------------------------------------------------
(* Claims about the invocation *)

\* the hooks an action that never fails has invoked when it is done
AllHooks(act) ==
    (IF act.preRun THEN <<"preRun">> ELSE <<>>) \o <<"run">>
        \o (IF act.postRun THEN <<"postRun">> ELSE <<>>)

-----------------------------------------------------------------------------
(* Claims about the environment, the collaborators and the frame *)

\* NODE_ENV as the context was given it, "" when it was not given
NodeEnv(e) == IF "NODE_ENV" \in DOMAIN e THEN e["NODE_ENV"] ELSE ""

\* C11: no operation of the context changes the environment it holds, so the
\* mode is the same throughout: NODE_ENV, or "development" when NODE_ENV is
\* absent or empty; isDevelop and isProduction answer for that one mode, so
\* they are never both true.
C11_EnvNeverChanges ==
    /\ [](LET mode == IF NodeEnv(env) = "" THEN "development" ELSE NodeEnv(env) IN
          /\ ret.op = "getMode" => ret.val = mode
          /\ ret.op = "isDevelop" => (ret.val <=> mode = "development")
          /\ ret.op = "isProduction" => (ret.val <=> mode = "production")
          /\ ret.op = "isDevelop" /\ ret.val => mode # "production")
    /\ [][env' = env]_vars

\* an empty NODE_ENV read as development after exec and other operations ran
C11_Witness ==
    /\ ret.op = "getMode" /\ ret.val = "development"
    /\ env = [NODE_ENV |-> ""]
    /\ usedFiles # <<>> /\ config # EmptyObj /\ args # EmptyObj

\* C12: getConfigFileContents resolves the definition, then the path, and
\* only then calls getFileContents, with the registered definition and the path
\* under dist.config; with no definition registered it throws "not defined",
\* else with dist.config unset it throws the directory error, and in both cases
\* getFileContents is not called.
C12_ContentsDelegation ==
    ret.op = "getConfigFileContents" =>
        IF ret.arg \notin DOMAIN hRegistered
        THEN ~ret.ok /\ ret.val = FileNotDefined /\ calls = <<>>
        ELSE IF "dist.config" \notin DOMAIN dir
        THEN ~ret.ok /\ ret.val = DirectoryNotDefined /\ calls = <<>>
        ELSE /\ ret.ok
             /\ calls = <<[fn |-> "getFileContents",
                           fileDef |-> hRegistered[ret.arg],
                           fileName |-> PathJoin(dir["dist.config"], ret.arg)]>>

\* the generator registered for b handed over with the normalised path
C12_Witness ==
    /\ ret.op = "getConfigFileContents" /\ ret.arg = "b" /\ ret.ok
    /\ calls = <<[fn |-> "getFileContents", fileDef |-> GeneratorFile,
                  fileName |-> <<"dist", "b">>]>>

\* neither a definition nor the directory: the definition is missed first
C12_WitnessBothMissing ==
    /\ ret.op = "getConfigFileContents" /\ ~ret.ok /\ ret.val = FileNotDefined
    /\ "dist.config" \notin DOMAIN dir
    /\ calls = <<>>

\* C13: once cli has started, the debug option is true exactly when the command
\* line holds -D, --debug or -DD.
C13_DebugOptionForEveryFlag ==
    stage \notin {"Startup", "Crashed"} =>
        (Prop(config, "debug") = Bool(TRUE)
            <=> \E flag \in DebugFlags : Includes(argv, flag))

\* what the code does: the option is set for -D and --debug, not for -DD alone
C13_DebugOptionForDAndDebug ==
    stage \notin {"Startup", "Crashed"} =>
        (Prop(config, "debug") = Bool(TRUE)
            <=> Includes(argv, "-D") \/ Includes(argv, "--debug"))

ExecSettings == {"localDir", "preferLocal", "stdio", "env"}

\* the options of an exec call as given, {} when none were
GivenOptions == IF ret.arg[3] = Undefined THEN EmptyObj ELSE ret.arg[3]

\* the debug line of the call, before the spawn
ExecLoggedFirst ==
    /\ Len(calls) = 2
    /\ calls[1] = [fn |-> "logger.debug", msg |-> InvokingMessage(ret.arg[1], ret.arg[2])]
    /\ calls[2].fn = "execa"
    /\ calls[2].binary = ret.arg[1] /\ calls[2].args = ret.arg[2]

\* C14 as stated: each of the four settings reaches execa as the caller gave
\* it, and as the default when the caller gave none.
C14_EverySettingReplaced ==
    ret.op = "exec" /\ ret.ok =>
        /\ ExecLoggedFirst
        /\ \A k \in ExecSettings :
              Prop(calls[2].options, k) =
                  IF k \in Keys(GivenOptions) THEN GivenOptions.v[k]
                  ELSE ExecDefaults(dir, env).v[k]

\* C14 (amended): with the project alias set, exec logs the command line at
\* debug level and then calls execa with localDir, preferLocal and stdio as the
\* caller gave them, or directory("project"), true and "inherit" where the
\* caller gave none; env is the context's environment with the keys of a
\* caller's env laid over it, not the caller's env alone.
C14_SettingsReplacedEnvMerged ==
    ret.op = "exec" /\ ret.ok =>
        /\ ExecLoggedFirst
        /\ \A k \in ExecSettings \ {"env"} :
              Prop(calls[2].options, k) =
                  IF k \in Keys(GivenOptions) THEN GivenOptions.v[k]
                  ELSE ExecDefaults(dir, env).v[k]
        /\ LET given == Prop(GivenOptions, "env") IN
           Prop(calls[2].options, "env") =
               Obj([k \in DOMAIN env \cup Keys(given) |->
                      IF k \in Keys(given) THEN given.v[k] ELSE Str(env[k])])

\* a caller's env with FOO alone reaches execa next to NODE_ENV of the context
C14_Witness ==
    /\ ret.op = "exec" /\ ret.ok
    /\ ret.arg[3] = Obj([env |-> Obj([FOO |-> Str("1")])])
    /\ Prop(calls[2].options, "env")
          = Obj([NODE_ENV |-> Str("production"), FOO |-> Str("1")])
    /\ Prop(calls[2].options, "localDir") = PathValue(<<"work", "..", "dist">>)

\* C15: a definition registered by setConfigFile is held as registered: no
\* accessor, returning or throwing, for this or another name, replaces it by
\* the placeholder or changes it; only a setConfigFile for the same name does.
C15_AccessorsKeepRegistrations ==
    /\ [](\A n \in DOMAIN hRegistered :
             n \in DOMAIN config_files /\ config_files[n] = hRegistered[n])
    /\ [][\A n \in DOMAIN config_files :
             config_files[n] # NullFile =>
                \/ n \in DOMAIN config_files' /\ config_files'[n] = config_files[n]
                \/ ret'.op = "setConfigFile" /\ ret'.arg[1] = n]_vars

\* a is still the generator after its path was asked for and the call threw
C15_Witness ==
    /\ ret.op = "getConfigFilePath" /\ ret.arg = "a" /\ ~ret.ok
    /\ config_files["a"] = GeneratorFile
    /\ "b" \in DOMAIN config_files /\ config_files["b"] = NullFile

\* f and g agree on every key but k
SameButAt(f, g, k) ==
    /\ DOMAIN f \ {k} = DOMAIN g \ {k}
    /\ \A n \in DOMAIN f \ {k} : f[n] = g[n]

\* C16: updateOptions changes the configuration alone, updateArgs the arguments
\* alone, setDirectory the one alias, setConfigFile the one definition; an
\* accessor that throws leaves everything as it was but the name added to
\* usedFiles and, at most, the placeholder stored for a name never registered.
C16_MutatorsKeepToTheirComponent ==
    [][/\ ret'.op = "updateOptions" =>
             UNCHANGED <<env, dir, args, config_files, usedFiles>>
       /\ ret'.op = "updateArgs" =>
             UNCHANGED <<env, dir, config, config_files, usedFiles>>
       /\ ret'.op = "setDirectory" =>
             /\ UNCHANGED <<env, config, args, config_files, usedFiles>>
             /\ SameButAt(dir, dir', ret'.arg[1])
       /\ ret'.op = "setConfigFile" =>
             /\ UNCHANGED <<env, dir, config, args, usedFiles>>
             /\ SameButAt(config_files, config_files', ret'.arg[1])
       /\ ret'.op \in Accessors /\ ~ret'.ok =>
             /\ UNCHANGED <<env, dir, config, args>>
             /\ Range(usedFiles') = Range(usedFiles) \cup {ret'.arg}
             /\ SameButAt(config_files, config_files', ret'.arg)
             /\ \/ /\ ret'.arg \in DOMAIN config_files <=> ret'.arg \in DOMAIN config_files'
                   /\ ret'.arg \in DOMAIN config_files =>
                         config_files'[ret'.arg] = config_files[ret'.arg]
                \/ /\ ret'.arg \notin DOMAIN hRegistered
                   /\ ret'.arg \in DOMAIN config_files'
                   /\ config_files'[ret'.arg] = NullFile]_vars

\* a definition asked for and missed, next to options, arguments, a directory
\* and a registration made before
C16_Witness ==
    /\ ret.op = "getConfigFileDefinition" /\ ret.arg = "b" /\ ~ret.ok
    /\ usedFiles = <<"b">> /\ "b" \notin DOMAIN config_files
    /\ "a" \in DOMAIN hRegistered
    /\ config # EmptyObj /\ args # EmptyObj /\ "missing" \in DOMAIN dir

====
